---- MODULE Spec2Model ----
(***************************************************************************)
(* Call-session lifecycle and turn controller of the FreeSWITCH AI caller. *)
(* Two variants are modelled side by side, chosen in Init:                 *)
(*   "outbound"  src/outboundim (identical to src/ai-implementation.py)    *)
(*   "inbound"   src/inboundim                                             *)
(* The controller is one sequential program (pc); the telephony switch and *)
(* the caller are the environment (call state, event queue, media state).  *)
(***************************************************************************)
EXTENDS Integers, Sequences, FiniteSets, TLC

\* ------------------------------------------------------------------ bounds
\* Timeout of an event wait, in poll intervals (the unit of the wait clock).
MaxPolls == 2
\* Number of events that are not events of the call (events of no interest to
\* any wait, events of other channels) that the switch sends during one wait.
MaxOthers == 2
\* Number of events of other channels that reach the connection in a session.
MaxForeign == 1
\* Number of connections the inbound dispatcher accepts.
MaxConns == 2

\* ------------------------------------------------------- program constants
OutboundMaxIterations == 3
InboundMaxIterations == 5
MinFileSize == 1000
\* record_user_response: max_wait, in seconds.
OutboundMaxWait == 7
InboundMaxWait == 15
\* record_user_response: the maximum duration given to "uuid_record start",
\* in milliseconds as the program means it.
OutboundRecordLimit == 20000
InboundRecordLimit == 15000

NoFile == -1
Variants == {"outbound", "inbound"}

VARIABLES
    variant,         \* which program runs
    pc,              \* controller position
    callState,       \* switch: "none" | "ringing" | "up" | "down"
    evq,             \* events delivered to the connection, not yet received
    playing,         \* switch: audio is being played into the call
    capturing,       \* switch: a per-turn capture is running
    wholeActive,     \* switch: the whole-call recording is running
    file,            \* size of the per-turn recording file, NoFile if absent
    polls,           \* time spent in the current event wait, in poll intervals
                     \* (a local of the wait: 0 once its result was used)
    others,          \* events that are not the call's, sent during the wait
    foreign,         \* events of other channels delivered so far
    accepted,        \* inbound dispatcher: connections accepted
    controllers,     \* inbound dispatcher: handler threads started
    listening,       \* inbound dispatcher: the accept loop is running
    artifacts,       \* per-turn files the session has used: kind, path, turn
                     \* (a recording also: started after a settle pause)
    record_started,  \* record_user_response: RECORD_START seen (a local too)
    turnStops,       \* record_user_response: per-turn "uuid_record stop" commands
                     \* issued by the current call of the function
    captureRan,      \* record_user_response: the switch started the capture this
                     \* call of the function asked for (gone when it returns)
    settled,         \* a settle pause was slept since the last playback step
                     \* and the last start of a per-turn capture
    iteration,       \* conversation_loop: iteration
    history,         \* conversation_loop: conversation_history
    transcription,   \* conversation_loop: transcription of the current turn
    messages,        \* process_call_context: messages, the sequence handed to
                     \* the reply service (a local: empty once it was used)
    playCtx,         \* which call site of play_audio_file is running
    playRet,         \* value returned by play_audio_file, until its caller has
                     \* looked at it or dropped it
    recRet,          \* last return value of record_user_response
    recVia,          \* return path taken by record_user_response (a local too)
    wholeStart,      \* number of whole-call "uuid_record start" commands
    wholeStop,       \* number of whole-call "uuid_record stop" commands
    hangupCmds,      \* number of hangup commands (uuid_kill / hangup)
    initiated,       \* call initiation succeeded
    gateFailed,      \* a CallGate checkpoint of the loop returned false
    svcFailed,       \* an external service call failed
    escaped,         \* an exception left the controller: "none", or its cause
                     \* "service" (a failed service call) / "code"
    wholeRan,        \* the switch did start the whole-call recording
    endReason        \* why the session ended

vars == <<variant, pc, callState, evq, playing, capturing, wholeActive, file,
          polls, others, foreign, accepted, controllers, listening, artifacts, record_started, turnStops, captureRan, settled,
          iteration, history,
          transcription, messages, playCtx,
          playRet, recRet, recVia, wholeStart, wholeStop, hangupCmds,
          initiated, gateFailed, svcFailed, escaped, wholeRan, endReason>>

\* Groups used in UNCHANGED clauses.
switchVars == <<callState, evq, playing, capturing, wholeActive, file>>
loopVars   == <<iteration, history, transcription, messages>>
retVars    == <<playCtx, playRet, recRet, recVia>>
cmdVars    == <<wholeStart, wholeStop, hangupCmds>>
flagVars   == <<initiated, gateFailed, svcFailed, escaped, wholeRan>>
dispVars   == <<foreign, accepted, controllers, listening>>

\* --------------------------------------------------------------- transport
\* An event of the call is written by its name; the same event of another
\* channel of the switch (another Unique-ID) is written "other:" + name.
OtherChannelEvents ==
    {"other:CHANNEL_ANSWER", "other:CHANNEL_HANGUP", "other:PLAYBACK_STOP",
     "other:RECORD_START", "other:RECORD_STOP"}

\* Events that are not events of the call: those no wait looks for
\* (HEARTBEAT, CHANNEL_STATE, ...) and those of other channels.
OtherEvents == {"HEARTBEAT"} \cup OtherChannelEvents

\* event.getHeader("Event-Name"): the only header the waits read.
EventName(e) ==
    CASE e = "other:CHANNEL_ANSWER" -> "CHANNEL_ANSWER"
      [] e = "other:CHANNEL_HANGUP" -> "CHANNEL_HANGUP"
      [] e = "other:PLAYBACK_STOP"  -> "PLAYBACK_STOP"
      [] e = "other:RECORD_START"   -> "RECORD_START"
      [] e = "other:RECORD_STOP"    -> "RECORD_STOP"
      [] OTHER                      -> e

\* conn.events(...): the outbound program subscribes to all events, the
\* inbound one to RECORD_START RECORD_STOP CHANNEL_ANSWER CHANNEL_HANGUP.
Subscribed(v, e) ==
    IF v = "outbound" THEN TRUE
    ELSE EventName(e) \in {"RECORD_START", "RECORD_STOP", "CHANNEL_ANSWER",
                           "CHANNEL_HANGUP"}

RECURSIVE Deliver(_, _, _)
Deliver(v, q, es) ==
    IF es = <<>> THEN q
    ELSE Deliver(v, IF Subscribed(v, Head(es)) THEN Append(q, Head(es)) ELSE q,
                 Tail(es))

\* while time.time() - start_time < timeout: the test of every event wait.  It
\* looks at the clock only, not at the events still pending (q).
WaitExpired_Mut(t, q) == t >= MaxPolls /\ q = <<>>

WaitExpired(t, q) == t >= MaxPolls

\* A poll that takes no time when it brings no event.
PollTime_Mut(received, d) == IF received THEN d ELSE 0

\* recvEventTimed: an empty poll blocks for the whole poll interval; a poll
\* that receives an event returns when the event comes, d poll intervals
\* after it began (0: the event was waiting, 1: it came at the very end).
PollTime(received, d) == IF received THEN d ELSE 1

\* check_call_active: uuid_exists answers "true" while the channel exists.
CheckCallActive(cs) == cs \in {"ringing", "up"}

\* max_iterations passed by main / handle_connection.
MaxIterations(v) ==
    IF v = "outbound" THEN OutboundMaxIterations ELSE InboundMaxIterations

\* A loop test that is off by one.
LoopContinues_Mut(it, max) == it <= max

\* while iteration < max_iterations
LoopContinues(it, max) == it < max

Init ==
    /\ variant \in Variants
    /\ pc = IF variant = "outbound" THEN "start" ELSE "accept"
    /\ callState = IF variant = "outbound" THEN "none" ELSE "ringing"
    /\ evq = <<>>
    /\ playing = FALSE
    /\ capturing = FALSE
    /\ wholeActive = FALSE
    /\ file = NoFile
    /\ polls = 0
    /\ others = 0
    /\ foreign = 0
    /\ accepted = 0
    /\ controllers = 0
    /\ listening = (variant = "inbound")
    /\ artifacts = {}
    /\ record_started = FALSE
    /\ turnStops = 0
    /\ captureRan = FALSE
    /\ settled = FALSE
    /\ iteration = 0
    /\ history = <<>>
    /\ transcription = "unset"
    /\ messages = <<>>
    /\ playCtx = "none"
    /\ playRet = "unset"
    /\ recRet = "unset"
    /\ recVia = "none"
    /\ wholeStart = 0
    /\ wholeStop = 0
    /\ hangupCmds = 0
    /\ initiated = FALSE
    /\ gateFailed = FALSE
    /\ svcFailed = FALSE
    /\ escaped = "none"
    /\ wholeRan = FALSE
    /\ endReason = "none"


\* ------------------------------------------------------------- environment
\* What the switch does when the channel goes away (caller hangup, uuid_kill,
\* hangup application): CHANNEL_HANGUP is fired, media stops, running
\* recordings are closed (RECORD_STOP each).  sz is the size the per-turn file
\* has reached if a capture was running.
HangupEffects(sz) ==
    /\ callState' = "down"
    /\ evq' = Deliver(variant, evq,
                      <<"CHANNEL_HANGUP">>
                      \o (IF capturing THEN <<"RECORD_STOP">> ELSE <<>>)
                      \o (IF wholeActive THEN <<"RECORD_STOP">> ELSE <<>>))
    /\ playing' = FALSE
    /\ capturing' = FALSE
    /\ wholeActive' = FALSE
    /\ file' = IF capturing THEN sz ELSE file

\* The callee answers the outbound call.
CalleeAnswers ==
    /\ variant = "outbound"
    /\ callState = "ringing"
    /\ callState' = "up"
    /\ evq' = Deliver(variant, evq, <<"CHANNEL_ANSWER">>)
    /\ UNCHANGED <<variant, turnStops, captureRan, settled, dispVars, others, artifacts,
                   pc, playing, capturing, wholeActive, file, polls,
                   record_started, loopVars, retVars, cmdVars, flagVars,
                   endReason>>

\* The remote party hangs up (or never answers and the call is torn down).
CallerHangsUp ==
    /\ callState \in {"ringing", "up"}
    /\ \E sz \in {0, MinFileSize, MinFileSize + 1} : HangupEffects(sz)
    /\ UNCHANGED <<variant, turnStops, captureRan, settled, dispVars, others, artifacts,
                   pc, polls, record_started, loopVars, retVars,
                   cmdVars, flagVars, endReason>>

\* The audio being played reaches its end.
PlaybackEnds ==
    /\ playing
    /\ playing' = FALSE
    /\ evq' = Deliver(variant, evq, <<"PLAYBACK_STOP">>)
    /\ UNCHANGED <<variant, turnStops, captureRan, settled, dispVars, others, artifacts,
                   pc, callState, capturing, wholeActive, file, polls,
                   record_started, loopVars, retVars, cmdVars, flagVars,
                   endReason>>

\* The per-turn capture stops by itself (silence detected or max duration):
\* the file then holds several seconds of audio.
SilenceStop ==
    /\ capturing
    /\ capturing' = FALSE
    /\ file' = MinFileSize + 1
    /\ evq' = Deliver(variant, evq, <<"RECORD_STOP">>)
    /\ UNCHANGED <<variant, turnStops, captureRan, settled, dispVars, others, artifacts,
                   pc, callState, playing, wholeActive, polls,
                   record_started, loopVars, retVars, cmdVars, flagVars,
                   endReason>>

\* The switch fires an event that is not an event of the call while a wait is
\* blocked in recvEventTimed with nothing pending and its deadline ahead.  The
\* programs subscribe by event name only (no myevents, no filter on
\* Unique-ID), so the switch sends the events of every channel to every
\* connection subscribed to their names.  For the inbound program the other
\* channel is the call of another accepted connection.
OtherEvent ==
    /\ pc \in {"answer_wait", "play_wait", "rec_wait"}
    /\ evq = <<>>
    /\ polls < MaxPolls
    /\ \E e \in OtherEvents :
         /\ Subscribed(variant, e)
         /\ IF e \in OtherChannelEvents
            THEN /\ foreign < MaxForeign
                 /\ variant = "inbound" => accepted >= 2
                 /\ foreign' = foreign + 1
                 /\ UNCHANGED others
            ELSE /\ others < MaxOthers
                 /\ others' = others + 1
                 /\ UNCHANGED foreign
         /\ evq' = Deliver(variant, evq, <<e>>)
    /\ UNCHANGED <<variant, turnStops, captureRan, settled, accepted, controllers, listening, artifacts, pc, callState,
                   playing, capturing, wholeActive, file, polls,
                   record_started, loopVars, retVars, cmdVars, flagVars,
                   endReason>>

\* -------------------------------------------------------------- dispatcher
\* An accept loop that is left when accept() raises.
AcceptLoopContinues_Mut(ok) == ok

\* start_socket_server: "while True:" around a try whose handler logs the
\* error and sleeps; nothing leaves the loop.
AcceptLoopContinues(ok) == TRUE

\* start_socket_server: one turn of the accept loop.  accept() returns a
\* connection, for which a thread running handle_connection is started, or it
\* raises, which is logged and followed by the next turn.  The first
\* connection is the session followed here.
Accept ==
    /\ variant = "inbound"
    /\ listening
    /\ accepted < MaxConns
    /\ \E ok \in BOOLEAN :
         /\ listening' = AcceptLoopContinues(ok)
         /\ IF ok
            THEN /\ accepted' = accepted + 1
                 /\ controllers' = controllers + 1
                 /\ pc' = IF pc = "accept" THEN "start" ELSE pc
            ELSE UNCHANGED <<accepted, controllers, pc>>
    /\ UNCHANGED <<variant, turnStops, captureRan, settled, others, foreign, artifacts, switchVars, polls,
                   record_started, loopVars, retVars, cmdVars, flagVars,
                   endReason>>

\* ------------------------------------------------------ session: the prefix
\* main / handle_connection: ESLconnection(...) and conn.connected().
Connect ==
    /\ pc = "start"
    /\ \E ok \in BOOLEAN :
         IF ok THEN pc' = "initiate" /\ endReason' = endReason
         ELSE pc' = "ended" /\ endReason' = "ConnectFailed"
    /\ UNCHANGED <<variant, turnStops, captureRan, settled, dispVars, others, artifacts,
                   switchVars, polls, record_started, loopVars,
                   retVars, cmdVars, flagVars>>

\* initiate_call: the reply to originate starts with "+OK" or not.
InitiateCallResult(ok) == IF ok THEN "uuid" ELSE "None"

\* A driver that takes a failed initiation for an unanswered call and hangs
\* up.
InitiateTarget_Mut(v, ok) ==
    IF ok THEN (IF v = "outbound" THEN "answer_wait" ELSE "start_whole")
    ELSE IF v = "outbound" THEN "kill_unanswered" ELSE "conn_hangup"

\* main: "if not call_uuid: return", else wait_for_call_events;
\* handle_connection: "if info:" answer and start the whole-call recording,
\* else a warning and the end of the handler.
InitiateTarget(v, ok) ==
    IF ok THEN (IF v = "outbound" THEN "answer_wait" ELSE "start_whole")
    ELSE "ended"

\* outbound: initiate_call(conn); inbound: conn.getInfo() and execute("answer").
InitiateCall ==
    /\ pc = "initiate"
    /\ \E ok \in BOOLEAN :
         IF variant = "outbound"
         THEN IF InitiateCallResult(ok) # "None"
              THEN /\ callState' = "ringing"
                   /\ initiated' = TRUE
                   /\ polls' = 0
                   /\ pc' = InitiateTarget(variant, TRUE)
                   /\ UNCHANGED <<evq, endReason>>
              ELSE /\ pc' = InitiateTarget(variant, FALSE)
                   /\ endReason' = "InitiationFailed"
                   /\ UNCHANGED <<callState, evq, initiated, polls, wholeRan>>
         ELSE IF ok
              THEN /\ callState' = IF callState = "ringing" THEN "up" ELSE callState
                   /\ evq' = IF callState = "ringing"
                             THEN Deliver(variant, evq, <<"CHANNEL_ANSWER">>)
                             ELSE evq
                   /\ initiated' = TRUE
                   /\ pc' = InitiateTarget(variant, TRUE)
                   /\ UNCHANGED <<polls, endReason>>
              ELSE /\ pc' = InitiateTarget(variant, FALSE)
                   /\ endReason' = "InitiationFailed"
                   /\ UNCHANGED <<callState, evq, initiated, polls, wholeRan>>
    /\ UNCHANGED <<variant, turnStops, captureRan, settled, dispVars, others, artifacts,
                   playing, capturing, wholeActive, file,
                   record_started, loopVars, retVars, cmdVars, gateFailed,
                   svcFailed, escaped, wholeRan>>

\* An answer wait that takes any channel event as the answer.
WaitForCallEvents_Mut(e) ==
    IF e \in {"CHANNEL_ANSWER", "CHANNEL_HANGUP"} THEN "ANSWERED" ELSE "continue"

\* wait_for_call_events: what one received event does to the wait.
WaitForCallEvents(e) ==
    IF e = "CHANNEL_ANSWER" THEN "ANSWERED"
    ELSE IF e = "CHANNEL_HANGUP" THEN "HANGUP"
    ELSE "continue"

\* A main that goes to the greeting without starting the whole-call
\* recording.
AfterAnswerWait_Mut(result) ==
    IF result = "ANSWERED" THEN "play_issue" ELSE "kill_unanswered"

\* main: event_result == "ANSWERED" ?
AfterAnswerWait(result) ==
    IF result = "ANSWERED" THEN "start_whole" ELSE "kill_unanswered"

\* One turn of the polling loop of wait_for_call_events, with main's branch
\* on its result.
AnswerPoll ==
    /\ pc = "answer_wait"
    /\ IF WaitExpired(polls, evq)
       THEN /\ pc' = AfterAnswerWait("None")
            /\ UNCHANGED <<evq, polls>>
       ELSE IF evq = <<>>
            THEN /\ polls' = polls + PollTime(FALSE, 0)
                 /\ UNCHANGED <<pc, evq>>
            ELSE /\ evq' = Tail(evq)
                 /\ pc' = IF WaitForCallEvents(EventName(Head(evq))) = "continue"
                          THEN pc
                          ELSE AfterAnswerWait(WaitForCallEvents(EventName(Head(evq))))
                 /\ \E d \in {0, 1} : polls' = polls + PollTime(TRUE, d)
    /\ UNCHANGED <<variant, turnStops, captureRan, settled, dispVars, others, artifacts,
                   callState, playing, capturing, wholeActive, file,
                   record_started, loopVars, retVars, cmdVars, flagVars,
                   endReason>>

\* main: the call was not answered: uuid_kill.
KillUnanswered ==
    /\ pc = "kill_unanswered"
    /\ hangupCmds' = hangupCmds + 1
    /\ IF CheckCallActive(callState)
       THEN HangupEffects(file)
       ELSE UNCHANGED switchVars
    /\ pc' = "ended"
    /\ endReason' = "NotAnswered"
    /\ polls' = 0
    /\ others' = 0
    /\ UNCHANGED <<variant, turnStops, captureRan, settled, dispVars, artifacts,
                   record_started, loopVars, retVars,
                   wholeStart, wholeStop, flagVars>>

\* main / handle_connection: uuid_record <uuid> start <whole-call path>,
\* then play_audio_file(greeting).
StartWholeRecording ==
    /\ pc = "start_whole"
    /\ wholeStart' = wholeStart + 1
    /\ IF CheckCallActive(callState)
       THEN /\ wholeActive' = TRUE
            /\ wholeRan' = TRUE
            /\ evq' = Deliver(variant, evq, <<"RECORD_START">>)
       ELSE UNCHANGED <<wholeActive, wholeRan, evq>>
    /\ playCtx' = "greeting"
    /\ pc' = "play_issue"
    /\ polls' = 0
    /\ others' = 0
    /\ UNCHANGED <<variant, turnStops, captureRan, settled, dispVars, artifacts,
                   callState, playing, capturing, file,
                   record_started, loopVars, playRet, recRet, recVia,
                   wholeStop, hangupCmds, initiated, gateFailed, svcFailed,
                   escaped, endReason>>

\* ------------------------------------------------------------------ Player
\* A playback wait that takes any terminating event as completion.
PlaybackWaitResult_Mut(e) ==
    IF e \in {"PLAYBACK_STOP", "CHANNEL_HANGUP"} THEN "True" ELSE "continue"

\* outbound wait_for_playback_completion: what one received event does.
PlaybackWaitResult(e) ==
    IF e = "PLAYBACK_STOP" THEN "True"
    ELSE IF e = "CHANNEL_HANGUP" THEN "False"
    ELSE "continue"

\* outbound wait_for_playback_completion: the value returned at the deadline.
PlaybackTimeoutResult == "False"

\* inbound play_audio_file: the value returned after the sleep (the function
\* ends without a return statement).
InboundPlayCompleted == "None"

\* play_audio_file up to the play command.
\*   outbound: prepare the file, uuid_broadcast, then wait for events.
\*   inbound : check_call_active, exists(), execute("playback"),
\*             get_audio_duration (5.0 when ffprobe fails), sleep.
\* The format conversion of the file is plumbing and taken to succeed.
PlayIssue ==
    /\ pc = "play_issue"
    /\ IF variant = "outbound"
       THEN /\ playing' = (playing \/ callState = "up")
            /\ polls' = 0
            /\ pc' = "play_wait"
            /\ UNCHANGED playRet
       ELSE IF ~CheckCallActive(callState)
            THEN /\ playRet' = "False"
                 /\ pc' = "play_ret"
                 /\ UNCHANGED <<playing, polls>>
            ELSE \E exists \in BOOLEAN :
                   IF ~exists
                   THEN /\ playRet' = "False"
                        /\ pc' = "play_ret"
                        /\ UNCHANGED <<playing, polls>>
                   ELSE /\ playing' = TRUE
                        /\ \E known \in BOOLEAN :
                             pc' = IF known THEN "play_sleep"
                                   ELSE "play_sleep_fallback"
                        /\ UNCHANGED <<polls, playRet>>
    /\ UNCHANGED <<variant, turnStops, captureRan, settled, dispVars, others, artifacts,
                   callState, evq, capturing, wholeActive, file,
                   record_started, loopVars, playCtx, recRet, recVia, cmdVars,
                   flagVars, endReason>>

\* One turn of the polling loop of outbound wait_for_playback_completion.
PlayWaitPoll ==
    /\ pc = "play_wait"
    /\ IF WaitExpired(polls, evq)
       THEN /\ playRet' = PlaybackTimeoutResult
            /\ pc' = "play_ret"
            /\ UNCHANGED <<evq, polls>>
       ELSE IF evq = <<>>
            THEN /\ polls' = polls + PollTime(FALSE, 0)
                 /\ UNCHANGED <<pc, evq, playRet>>
            ELSE /\ evq' = Tail(evq)
                 /\ IF PlaybackWaitResult(EventName(Head(evq))) = "continue"
                    THEN UNCHANGED <<pc, playRet>>
                    ELSE /\ playRet' = PlaybackWaitResult(EventName(Head(evq)))
                         /\ pc' = "play_ret"
                 /\ \E d \in {0, 1} : polls' = polls + PollTime(TRUE, d)
    /\ UNCHANGED <<variant, turnStops, captureRan, settled, dispVars, others, artifacts,
                   callState, playing, capturing, wholeActive, file,
                   record_started, loopVars, playCtx, recRet, recVia, cmdVars,
                   flagVars, endReason>>

\* inbound play_audio_file: time.sleep(duration + 1) is over.  With the real
\* duration the audio has ended by then; with the 5.0 fallback it may not.
PlaySleepDone ==
    /\ pc \in {"play_sleep", "play_sleep_fallback"}
    /\ pc = "play_sleep" => ~playing
    /\ playRet' = InboundPlayCompleted
    /\ pc' = "play_ret"
    /\ UNCHANGED <<variant, turnStops, captureRan, settled, dispVars, others, artifacts,
                   switchVars, polls, record_started, loopVars,
                   playCtx, recRet, recVia, cmdVars, flagVars, endReason>>

\* The two policies the other way round: the outbound main ignoring the value,
\* the inbound handler ending the session on a false one.
AfterGreeting_Mut(v, ret) ==
    IF v = "outbound"
    THEN "loop_head"
    ELSE IF ret = "False" THEN "ended" ELSE "conv_start"

\* main: "if play_audio_file(...)": only a true value enters the loop;
\* handle_connection ignores the value.
AfterGreeting(v, ret) ==
    IF v = "outbound"
    THEN IF ret = "True" THEN "loop_head" ELSE "ended"
    ELSE "conv_start"

\* A loop that is left when the playback of a reply or prompt did not return
\* true.
PlayReturnTarget_Mut(v, ctx, ret) ==
    CASE ctx = "greeting" -> AfterGreeting(v, ret)
      [] ctx = "goodbye"  -> "stop_whole"
      [] OTHER            -> IF ret = "True" THEN "loop_head"
                             ELSE IF v = "outbound" THEN "stop_whole"
                             ELSE "goodbye"

\* The caller's continuation after play_audio_file returned.  Only main, for
\* the greeting, looks at the value; every other caller drops it: the loop
\* calls play_audio_file as a statement, at the end of its body (reply) or
\* before a continue (prompts), and the goodbye is followed by the stop of the
\* whole-call recording.
PlayReturnTarget(v, ctx, ret) ==
    CASE ctx = "greeting" -> AfterGreeting(v, ret)
      [] ctx = "goodbye"  -> "stop_whole"
      [] OTHER            -> "loop_head"

PlayReturn ==
    /\ pc = "play_ret"
    /\ pc' = PlayReturnTarget(variant, playCtx, playRet)
    /\ endReason' = IF playCtx = "greeting" /\ AfterGreeting(variant, playRet) = "ended"
                    THEN "GreetingFailed" ELSE endReason
    /\ playRet' = IF playCtx = "greeting" /\ AfterGreeting(variant, playRet) = "ended"
                  THEN playRet ELSE "unset"
    /\ polls' = 0
    /\ settled' = FALSE
    /\ others' = 0
    /\ UNCHANGED <<variant, turnStops, captureRan, dispVars, artifacts,
                   switchVars, record_started, loopVars,
                   playCtx, recRet, recVia, cmdVars, flagVars>>

\* ------------------------------------------------------------ TurnRecorder
\* The identifier of the call: the uuid initiate_call got from originate, or
\* the Unique-ID of the inbound channel.
CallUuid == "u1"

\* recording_path = RECORDINGS_DIR / f"client_response_{call_uuid}.wav"
RecordingPath(call_uuid) == <<"client_response", call_uuid>>

\* The wait budget of record_user_response, in milliseconds.
RecordWaitBudget(v) ==
    (IF v = "outbound" THEN OutboundMaxWait ELSE InboundMaxWait) * 1000

\* The maximum duration of the capture, in milliseconds.
RecordLimit(v) ==
    IF v = "outbound" THEN OutboundRecordLimit ELSE InboundRecordLimit

\* The capture is started just before the wait begins, so it can still be
\* running when the wait's deadline passes only if its maximum duration is
\* not shorter than the wait budget.
CaptureOutlastsWait(v) == RecordLimit(v) >= RecordWaitBudget(v)

\* A record wait that takes any RECORD_STOP as the end of its capture.
RecordWaitResult_Mut(v, e, started) ==
    IF e = "RECORD_START" THEN "started"
    ELSE IF e = "RECORD_STOP" THEN "return_path"
    ELSE IF e = "CHANNEL_HANGUP" /\ v = "outbound" THEN "return_none"
    ELSE "continue"

\* record_user_response: what one received event does to the wait.  The
\* inbound loop has no CHANNEL_HANGUP branch.
RecordWaitResult(v, e, started) ==
    IF e = "RECORD_START" THEN "started"
    ELSE IF e = "RECORD_STOP" /\ started THEN "return_path"
    ELSE IF e = "CHANNEL_HANGUP" /\ v = "outbound" THEN "return_none"
    ELSE "continue"

\* A validation that accepts a file of exactly the floor size.
ValidateRecording_Mut(sz) ==
    IF sz # NoFile
    THEN IF sz >= MinFileSize THEN "path" ELSE "None"
    ELSE "None"

\* record_user_response after the manual stop: exists() and st_size > 1000.
ValidateRecording(sz) ==
    IF sz # NoFile
    THEN IF sz > MinFileSize THEN "path" ELSE "None"
    ELSE "None"

\* record_user_response: the pause before "uuid_record start", in seconds:
\* time.sleep(2.0) in the outbound program, none in the inbound one.
RecordSettleDelay(v) == IF v = "outbound" THEN 2 ELSE 0

\* record_user_response: (outbound: sleep 2.0) uuid_record start <turn path>.
\* The reply of the switch is not looked at: on a live call the capture
\* starts, or the switch refuses it (granted = FALSE) and writes no file.
RecordStart ==
    /\ pc = "rec_start"
    /\ \E granted \in BOOLEAN :
         /\ captureRan' = (CheckCallActive(callState) /\ granted)
         /\ IF CheckCallActive(callState) /\ granted
            THEN /\ capturing' = TRUE
                 /\ file' = 0
                 /\ evq' = Deliver(variant, evq, <<"RECORD_START">>)
            ELSE UNCHANGED <<capturing, file, evq>>
    /\ artifacts' = artifacts \cup
         {[kind |-> "recording",
           path |-> RecordingPath(CallUuid),
           turn |-> iteration,
           delayed |-> (settled \/ RecordSettleDelay(variant) > 0)]}
    /\ record_started' = FALSE
    /\ turnStops' = 0
    /\ settled' = FALSE
    /\ polls' = 0
    /\ pc' = "rec_wait"
    /\ UNCHANGED <<variant, dispVars, others, callState, playing, wholeActive, loopVars, retVars,
                   cmdVars, flagVars, endReason>>

\* One turn of the polling loop of record_user_response.
RecordWaitPoll ==
    /\ pc = "rec_wait"
    /\ IF WaitExpired(polls, evq)
       THEN /\ capturing => CaptureOutlastsWait(variant)
            /\ pc' = "rec_stop"
            /\ UNCHANGED <<evq, polls, record_started, recRet, recVia>>
       ELSE IF evq = <<>>
            THEN /\ polls' = polls + PollTime(FALSE, 0)
                 /\ UNCHANGED <<pc, evq, record_started, recRet, recVia>>
            ELSE /\ evq' = Tail(evq)
                 /\ \E d \in {0, 1} : polls' = polls + PollTime(TRUE, d)
                 /\ CASE RecordWaitResult(variant, EventName(Head(evq)),
                                       record_started) = "started" ->
                           /\ record_started' = TRUE
                           /\ UNCHANGED <<pc, recRet, recVia>>
                      [] RecordWaitResult(variant, EventName(Head(evq)),
                                       record_started) = "return_path" ->
                           /\ recRet' = "path"
                           /\ recVia' = "RECORD_STOP"
                           /\ pc' = "rec_ret"
                           /\ UNCHANGED record_started
                      [] RecordWaitResult(variant, EventName(Head(evq)),
                                       record_started) = "return_none" ->
                           /\ recRet' = "None"
                           /\ recVia' = "HANGUP"
                           /\ pc' = "rec_ret"
                           /\ UNCHANGED record_started
                      [] OTHER ->
                           UNCHANGED <<pc, record_started, recRet, recVia>>
    /\ UNCHANGED <<variant, turnStops, captureRan, settled, dispVars, others, artifacts,
                   callState, playing, capturing, wholeActive, file,
                   loopVars, playCtx, playRet, cmdVars, flagVars, endReason>>

\* record_user_response past the deadline: uuid_record stop <turn path>, then
\* the validation of the file.  sz is what a capture still running has written
\* (nothing when no media reached it).
RecordManualStop ==
    /\ pc = "rec_stop"
    /\ \E sz \in {0, MinFileSize, MinFileSize + 1} :
         LET written == IF capturing THEN sz ELSE file IN
           /\ file' = written
           /\ recRet' = ValidateRecording(written)
    /\ turnStops' = turnStops + 1
    /\ capturing' = FALSE
    /\ evq' = IF capturing THEN Deliver(variant, evq, <<"RECORD_STOP">>) ELSE evq
    /\ recVia' = "MANUAL_STOP"
    /\ pc' = "rec_ret"
    /\ UNCHANGED <<variant, captureRan, settled, dispVars, others, artifacts,
                   callState, playing, wholeActive, polls,
                   record_started, loopVars, playCtx, playRet, cmdVars,
                   flagVars, endReason>>

\* ------------------------------------------------------- conversation loop
\* Where the loop goes when it ends: the outbound loop is followed by the
\* stop of the whole-call recording, the inbound one by the goodbye message.
ClosingStart(v) == IF v = "outbound" THEN "stop_whole" ELSE "goodbye"

\* inbound conversation_loop: "if not check_call_active: return".
ConvStartTarget(active) == IF active THEN "conv_check2" ELSE "conn_hangup"

\* inbound conversation_loop: "if check_call_active:" around loop and closing.
ConvCheck2Target(active) == IF active THEN "loop_head" ELSE "final_check"

\* The checkpoints inside the loop: "if not check_call_active: break".
GateTarget(v, active, next) == IF active THEN next ELSE ClosingStart(v)

\* inbound conversation_loop: first liveness check, before the loop; when it
\* passes, time.sleep(0.5) follows.
ConversationStart ==
    /\ pc = "conv_start"
    /\ pc' = ConvStartTarget(CheckCallActive(callState))
    /\ settled' = CheckCallActive(callState)
    /\ gateFailed' = (gateFailed \/ ~CheckCallActive(callState))
    /\ endReason' = IF CheckCallActive(callState) THEN endReason ELSE "GateFailed"
    /\ UNCHANGED <<variant, turnStops, captureRan, dispVars, others, artifacts,
                   switchVars, polls, record_started, loopVars,
                   retVars, cmdVars, initiated, svcFailed, escaped, wholeRan>>

\* inbound conversation_loop: second liveness check, after the 0.5 s pause.
ConversationCheck2 ==
    /\ pc = "conv_check2"
    /\ pc' = ConvCheck2Target(CheckCallActive(callState))
    /\ gateFailed' = (gateFailed \/ ~CheckCallActive(callState))
    /\ endReason' = IF CheckCallActive(callState) THEN endReason ELSE "GateFailed"
    /\ UNCHANGED <<variant, turnStops, captureRan, settled, dispVars, others, artifacts,
                   switchVars, polls, record_started, loopVars,
                   retVars, cmdVars, initiated, svcFailed, escaped, wholeRan>>

\* while iteration < max_iterations: iteration += 1
LoopHead ==
    /\ pc = "loop_head"
    /\ IF LoopContinues(iteration, MaxIterations(variant))
       THEN /\ iteration' = iteration + 1
            /\ pc' = "gate_pre"
            /\ UNCHANGED endReason
       ELSE /\ pc' = ClosingStart(variant)
            /\ endReason' = "MaxTurnsReached"
            /\ UNCHANGED iteration
    /\ UNCHANGED <<variant, turnStops, captureRan, settled, dispVars, others, artifacts,
                   switchVars, polls, record_started, history,
                   transcription, messages, retVars, cmdVars, flagVars>>

\* Checkpoint before recording.
GatePre ==
    /\ pc = "gate_pre"
    /\ pc' = GateTarget(variant, CheckCallActive(callState), "rec_start")
    /\ gateFailed' = (gateFailed \/ ~CheckCallActive(callState))
    /\ endReason' = IF CheckCallActive(callState) THEN endReason ELSE "GateFailed"
    /\ UNCHANGED <<variant, turnStops, captureRan, settled, dispVars, others, artifacts,
                   switchVars, polls, record_started, loopVars,
                   retVars, cmdVars, initiated, svcFailed, escaped, wholeRan>>

\* "if not recorded_response: break".  The locals of record_user_response are
\* gone once it has returned.
AfterRecord ==
    /\ pc = "rec_ret"
    /\ pc' = IF recRet = "None" THEN ClosingStart(variant) ELSE "gate_post"
    /\ endReason' = IF recRet = "None" THEN "NoRecording" ELSE endReason
    /\ polls' = 0
    /\ others' = 0
    /\ record_started' = FALSE
    /\ turnStops' = 0
    /\ captureRan' = FALSE
    /\ recVia' = "none"
    /\ UNCHANGED <<variant, settled, dispVars, artifacts, switchVars, loopVars,
                   playCtx, playRet, recRet, cmdVars, flagVars>>

\* Checkpoint after recording.
GatePost ==
    /\ pc = "gate_post"
    /\ pc' = GateTarget(variant, CheckCallActive(callState), "transcribe")
    /\ gateFailed' = (gateFailed \/ ~CheckCallActive(callState))
    /\ endReason' = IF CheckCallActive(callState) THEN endReason ELSE "GateFailed"
    /\ UNCHANGED <<variant, turnStops, captureRan, settled, dispVars, others, artifacts,
                   switchVars, polls, record_started, loopVars,
                   retVars, cmdVars, initiated, svcFailed, escaped, wholeRan>>

\* ------------------------------------------------------- external services
Transcripts == {"", "hi"}

\* transcribe_audio: the transcript, or "" when the service fails or has no
\* result (the exception is caught inside).
TranscribeAudio(t) == t

\* send_message_to_gemini: the reply text, or the canned sentence when the
\* call fails (the exception is caught inside, so process_call_context never
\* raises).
SendMessageToGemini(ok) == IF ok THEN "reply" ELSE "sorry"

\* convert_text_to_audio: the text-to-speech call may raise; the inbound
\* version then builds its output path as {RECORDINGS_DIR}/f"...", a set
\* divided by a string, which raises TypeError on every call.
ConvertTextToAudio(v, svcOk) ==
    IF ~svcOk THEN "raise"
    ELSE IF v = "inbound" THEN "raise"
    ELSE "path"

\* outbound convert_text_to_audio:
\* output_path = f"/tmp/freeswitch_recordings/output_{call_uuid}.wav"
OutputPath(call_uuid) == <<"output", call_uuid>>

\* A loop that is left (break) when the synthesis of the reply fails.
SynthRaiseTarget_Mut(ctx) == IF ctx = "reply" THEN "stop_whole" ELSE "ended"

\* Where a raise of convert_text_to_audio goes: step 6 (the reply) is inside
\* try/except and continues the loop; the retry, error and goodbye prompts are
\* synthesized outside any try, so the exception leaves conversation_loop and
\* is logged by handle_connection.
SynthRaiseTarget(ctx) == IF ctx = "reply" THEN "loop_head" ELSE "ended"

\* Step 2: transcribe_audio; inbound: "if not transcription:" -> retry prompt.
AfterTranscribe(v, t) ==
    IF v = "inbound" /\ t = "" THEN "retry_prompt" ELSE "reply"

Transcribe ==
    /\ pc = "transcribe"
    /\ \E t \in Transcripts :
         /\ transcription' = TranscribeAudio(t)
         /\ svcFailed' = (svcFailed \/ TranscribeAudio(t) = "")
         /\ pc' = AfterTranscribe(variant, TranscribeAudio(t))
    /\ UNCHANGED <<variant, turnStops, captureRan, settled, dispVars, others, artifacts,
                   switchVars, polls, record_started, iteration,
                   history, messages, retVars, cmdVars, initiated, gateFailed, escaped,
                   endReason, wholeRan>>

\* The synthesis of a prompt or reply for call site ctx, then its playback.
SynthAndPlay(ctx) ==
    \E svcOk \in BOOLEAN :
      /\ svcFailed' = (svcFailed \/ ~svcOk)
      /\ IF ConvertTextToAudio(variant, svcOk) = "raise"
         THEN /\ pc' = SynthRaiseTarget(ctx)
              /\ escaped' = IF SynthRaiseTarget(ctx) # "ended" THEN escaped
                            ELSE IF svcOk THEN "code" ELSE "service"
              /\ endReason' = IF SynthRaiseTarget(ctx) = "ended"
                              THEN "Exception" ELSE endReason
              /\ UNCHANGED <<playCtx, artifacts>>
         ELSE /\ playCtx' = ctx
              /\ artifacts' = artifacts \cup {[kind |-> ctx,
                                               path |-> OutputPath(CallUuid),
                                               turn |-> iteration]}
              /\ pc' = "play_issue"
              /\ UNCHANGED <<escaped, endReason>>

\* inbound: the "couldn't hear you" prompt after an empty transcript.
RetryPrompt ==
    /\ pc = "retry_prompt"
    /\ SynthAndPlay("retry")
    /\ UNCHANGED <<variant, turnStops, captureRan, settled, dispVars, others, switchVars, polls, record_started, loopVars,
                   playRet, recRet, recVia, cmdVars, initiated, gateFailed, wholeRan>>

\* An append that keeps the last three entries only.
AppendEntry_Mut(h, role, text) ==
    IF Len(h) >= 3
    THEN Append(Tail(h), [role |-> role, content |-> text])
    ELSE Append(h, [role |-> role, content |-> text])

\* conversation_history.append({"role": role, "content": text})
AppendEntry(h, role, text) == Append(h, [role |-> role, content |-> text])

\* Step 3: conversation_history.append({"role": "user", ...}).  The outbound
\* loop has no test of the transcript before it: an empty one is appended too.
AppendUserEntry ==
    /\ pc = "reply"
    /\ history' = AppendEntry(history, "user", transcription)
    /\ pc' = "process"
    /\ UNCHANGED <<variant, turnStops, captureRan, settled, dispVars, others, artifacts,
                   switchVars, polls, record_started, iteration,
                   transcription, messages, retVars, cmdVars, flagVars, endReason>>

\* process_call_context:
\* messages = conversation_history + [{"role": "user", "content": call_context}]
RequestMessages(h, call_context) ==
    h \o <<[role |-> "user", content |-> call_context]>>

\* Steps 4-5: process_call_context(transcription, conversation_history)
\* builds the messages and calls the reply service with them, then
\* conversation_history.append({"role": "assistant", ...}).
ProcessCallContext ==
    /\ pc = "process"
    /\ messages' = RequestMessages(history, transcription)
    /\ \E ok \in BOOLEAN :
         /\ history' = AppendEntry(history, "assistant", SendMessageToGemini(ok))
         /\ svcFailed' = (svcFailed \/ ~ok)
    /\ pc' = "synthesize"
    /\ UNCHANGED <<variant, turnStops, captureRan, settled, dispVars, others, artifacts,
                   switchVars, polls, record_started, iteration,
                   transcription, retVars, cmdVars, initiated, gateFailed,
                   escaped, endReason, wholeRan>>

\* Steps 6-7: convert_text_to_audio(ai_response) in try/except, then play.
Synthesize ==
    /\ pc = "synthesize"
    /\ SynthAndPlay("reply")
    /\ messages' = <<>>
    /\ UNCHANGED <<variant, turnStops, captureRan, settled, dispVars, others, switchVars, polls, record_started,
                   iteration, history, transcription,
                   playRet, recRet, recVia, cmdVars, initiated, gateFailed, wholeRan>>

\* ------------------------------------------------------------------ closing
\* inbound: "if check_call_active:" goodbye message, synthesized and played.
Goodbye ==
    /\ pc = "goodbye"
    /\ IF CheckCallActive(callState)
       THEN SynthAndPlay("goodbye")
       ELSE /\ pc' = "stop_whole"
            /\ UNCHANGED <<playCtx, artifacts, svcFailed, escaped, endReason>>
    /\ UNCHANGED <<variant, turnStops, captureRan, settled, dispVars, others, switchVars, polls, record_started, loopVars,
                   playRet, recRet, recVia, cmdVars, initiated, gateFailed, wholeRan>>

\* uuid_record <uuid> stop <whole-call path>
StopWholeRecording ==
    /\ pc = "stop_whole"
    /\ wholeStop' = wholeStop + 1
    /\ wholeActive' = FALSE
    /\ evq' = IF wholeActive THEN Deliver(variant, evq, <<"RECORD_STOP">>) ELSE evq
    /\ pc' = "final_check"
    /\ UNCHANGED <<variant, turnStops, captureRan, settled, dispVars, others, artifacts,
                   callState, playing, capturing, file, polls,
                   record_started, loopVars, retVars, wholeStart, hangupCmds,
                   flagVars, endReason>>

\* A closing that says goodbye once the whole-call recording was stopped.
FinalCheckTarget_Mut(v, active) ==
    IF active THEN "goodbye"
    ELSE IF v = "outbound" THEN "ended" ELSE "conn_hangup"

\* The last "if check_call_active:" of conversation_loop.  outbound: sleep and
\* uuid_kill when active, else done; inbound: return either way, and
\* handle_connection goes on with execute("hangup").
FinalCheckTarget(v, active) ==
    IF v = "outbound"
    THEN IF active THEN "final_kill" ELSE "ended"
    ELSE "conn_hangup"

FinalCheck ==
    /\ pc = "final_check"
    /\ pc' = FinalCheckTarget(variant, CheckCallActive(callState))
    /\ UNCHANGED <<variant, turnStops, captureRan, settled, dispVars, others, artifacts,
                   switchVars, polls, record_started, loopVars,
                   retVars, cmdVars, flagVars, endReason>>

\* outbound: uuid_kill after the pause; inbound: conn.execute("hangup").
FinalHangup ==
    /\ pc \in {"final_kill", "conn_hangup"}
    /\ hangupCmds' = hangupCmds + 1
    /\ IF CheckCallActive(callState)
       THEN HangupEffects(file)
       ELSE UNCHANGED switchVars
    /\ pc' = "ended"
    /\ UNCHANGED <<variant, turnStops, captureRan, settled, dispVars, others, artifacts,
                   polls, record_started, loopVars, retVars,
                   wholeStart, wholeStop, flagVars, endReason>>

Next ==
    \/ OtherEvent
    \/ Accept
    \/ CalleeAnswers
    \/ CallerHangsUp
    \/ PlaybackEnds
    \/ SilenceStop
    \/ Connect
    \/ InitiateCall
    \/ AnswerPoll
    \/ KillUnanswered
    \/ StartWholeRecording
    \/ PlayIssue
    \/ PlayWaitPoll
    \/ PlaySleepDone
    \/ PlayReturn
    \/ RecordStart
    \/ RecordWaitPoll
    \/ RecordManualStop
    \/ ConversationStart
    \/ ConversationCheck2
    \/ LoopHead
    \/ GatePre
    \/ AfterRecord
    \/ GatePost
    \/ Transcribe
    \/ RetryPrompt
    \/ AppendUserEntry
    \/ ProcessCallContext
    \/ Synthesize
    \/ Goodbye
    \/ StopWholeRecording
    \/ FinalCheck
    \/ FinalHangup

Spec == Init /\ [][Next]_vars

\* The steps of the controller (the thread running main / handle_connection):
\* every action but those of the switch, the remote party and the dispatcher.
ControllerNext ==
    \/ Connect
    \/ InitiateCall
    \/ AnswerPoll
    \/ KillUnanswered
    \/ StartWholeRecording
    \/ PlayIssue
    \/ PlayWaitPoll
    \/ PlaySleepDone
    \/ PlayReturn
    \/ RecordStart
    \/ RecordWaitPoll
    \/ RecordManualStop
    \/ ConversationStart
    \/ ConversationCheck2
    \/ LoopHead
    \/ GatePre
    \/ AfterRecord
    \/ GatePost
    \/ Transcribe
    \/ RetryPrompt
    \/ AppendUserEntry
    \/ ProcessCallContext
    \/ Synthesize
    \/ Goodbye
    \/ StopWholeRecording
    \/ FinalCheck
    \/ FinalHangup

\* The controller is a running thread: its next statement is executed, every
\* blocking call it makes (sleep, recvEventTimed, api, a service call) returns.
\* The audio file being played is finite, so its playback ends.  Nothing is
\* assumed of the events the switch delivers.
LiveSpec ==
    Init /\ [][Next]_vars /\ WF_vars(ControllerNext) /\ WF_vars(PlaybackEnds)

\* ================================================================== claims
SessionEnded == pc = "ended"

ClosingPcs == {"goodbye", "stop_whole", "final_check", "final_kill",
               "conn_hangup", "ended"}
RecordPcs == {"rec_start", "rec_wait", "rec_stop"}
PlayPcs == {"play_issue", "play_wait", "play_sleep", "play_sleep_fallback"}
TurnPlayCtx == {"reply", "retry", "error"}

\* C1: once the whole-call recording was started, the session never reaches
\* ENDED without the stop-whole-call-recording command having been issued.
C1_StopBeforeEnded ==
    (SessionEnded /\ wholeRan) => wholeStop > 0

\* C2: for a session past call initiation, the forced hangup is issued at
\* most once, and it has been issued when the session ends with the call
\* still active.
C2_HangupExactlyOnce ==
    /\ hangupCmds <= 1
    /\ (SessionEnded /\ initiated /\ CheckCallActive(callState)) => hangupCmds = 1

\* C3: the loop never enters an iteration beyond max_iterations, also after
\* skipped or retried turns.
C3_AtMostMaxTurns ==
    /\ iteration <= MaxIterations(variant)
    /\ pc \in (RecordPcs \cup {"gate_pre", "rec_ret", "gate_post", "transcribe",
               "retry_prompt", "reply", "process", "synthesize"})
         => iteration \in 1..MaxIterations(variant)

\* The last allowed iteration is entered after an earlier turn was cut short
\* by a failed service call.
C3_Witness ==
    /\ pc = "gate_pre"
    /\ iteration = MaxIterations(variant)
    /\ svcFailed

\* C4: every per-turn record step and every per-turn playback step happens
\* after the whole-call recording start command and before its stop command.
C4_TurnsInsideWholeRecording ==
    (\/ pc \in RecordPcs
     \/ (pc \in PlayPcs /\ playCtx \in TurnPlayCtx)
     \/ (pc = "play_ret" /\ playCtx \in TurnPlayCtx))
      => (wholeStart = 1 /\ wholeStop = 0)

\* The reply of the second turn is being played while the whole-call
\* recording runs.
C4_Witness ==
    /\ pc = "play_wait"
    /\ playCtx = "reply"
    /\ iteration = 2
    /\ wholeActive
    /\ playing

\* C5: a per-turn capture and a playback are never in flight together.
C5_NoCaptureWhilePlaying ==
    ~(capturing /\ playing)

\* C6: a failed transcription, reply or synthesis call never escapes the
\* conversation loop.
C6_ServiceFailureContained ==
    escaped # "service"

\* C7: after a CallGate checkpoint returned false the controller is in
\* closing, and it does not end without the stop of the whole-call recording.
C7_GateFailureCloses ==
    gateFailed => (/\ pc \in ClosingPcs
                   /\ SessionEnded => wholeStop > 0)

\* C8: record_user_response never returns a success artifact at or below the
\* size floor.
C8_NoSmallArtifact ==
    (pc = "rec_ret" /\ recRet = "path") => (file # NoFile /\ file > MinFileSize)

C10_PlayReturnsBool ==
    pc = "play_ret" => playRet \in {"True", "False"}

\* C11: an event wait with timeout MaxPolls (answer wait, playback wait, record
\* wait) has spent at most MaxPolls plus one poll interval when it returns,
\* whatever events it received, uninteresting ones included.
C11_WaitBounded ==
    polls <= MaxPolls + 1

\* The answer wait is at its deadline, about to return, after a run of polls
\* that each received an uninteresting event, and nothing else.
C11_Witness ==
    /\ pc = "answer_wait"
    /\ callState = "ringing"
    /\ others = MaxOthers
    /\ evq = <<>>
    /\ polls >= MaxPolls

\* C12: an outbound answer wait that ends with CHANNEL_HANGUP or with its
\* deadline is followed by the forced hangup, and the session then ends as not
\* answered with zero turns: no whole-call recording start, no greeting, no
\* per-turn recording.
C12_NotAnsweredEndsCleanly ==
    [][/\ (/\ pc = "answer_wait"
           /\ pc' # pc
           /\ \/ evq' = evq
              \/ (evq # <<>> /\ Head(evq) = "CHANNEL_HANGUP"))
          => pc' = "kill_unanswered"
       /\ pc = "kill_unanswered" /\ pc' # pc
          => /\ pc' = "ended"
             /\ endReason' = "NotAnswered"
             /\ hangupCmds' = 1
             /\ wholeStart' = 0
             /\ playCtx' = "none"
             /\ iteration' = 0
             /\ file' = NoFile
             /\ history' = <<>>]_vars

\* The session has ended as not answered after the answer wait received
\* CHANNEL_HANGUP before its deadline.
C12_Witness ==
    /\ SessionEnded
    /\ endReason = "NotAnswered"
    /\ hangupCmds = 1
    /\ callState = "down"
    /\ evq = <<>>

\* C13: an inbound session in which turn 1 completed and record_user_response
\* returned None on turn 2 ends after exactly one completed turn, with the
\* whole-call recording stopped and the hangup issued.
C13_NoRecordingClosesInbound ==
    (/\ variant = "inbound"
     /\ SessionEnded
     /\ iteration = 2
     /\ recRet = "None"
     /\ Len(history) = 2)
      => (wholeStop = 1 /\ hangupCmds = 1)

\* The reply service failed on turn 2: the second exchange of the history
\* holds the fallback sentence, and the loop is still in turn 2.  (Every turn
\* before the current one has appended one exchange: a turn that appends none
\* ends the loop.)
TurnTwoReplyFailed ==
    /\ iteration = 2
    /\ Len(history) = 4
    /\ history[4].content = "sorry"

\* C14: when the reply service fails on turn 2, the turn goes on with the
\* fallback sentence only (synthesis, playback), the loop then enters turn 3,
\* and the entries of the turn-1 exchange stay in the history unmodified.
C14_ReplyFailureContained ==
    [][/\ Len(history) >= 2
          => /\ Len(history') >= 2
             /\ SubSeq(history', 1, 2) = SubSeq(history, 1, 2)
       /\ (TurnTwoReplyFailed /\ pc' # pc)
          => /\ pc' \in {"play_issue", "play_wait", "play_ret", "loop_head",
                         "gate_pre"}
             /\ pc = "loop_head" => (pc' = "gate_pre" /\ iteration' = 3)]_vars

\* Turn 3 is recording after the reply service failed on turn 2; the turn-1
\* exchange is still the first one of the history.
C14_Witness ==
    /\ variant = "outbound"
    /\ iteration = 3
    /\ pc = "rec_wait"
    /\ capturing
    /\ Len(history) = 4
    /\ history[1] = [role |-> "user", content |-> "hi"]
    /\ history[2] = [role |-> "assistant", content |-> "reply"]
    /\ history[4].content = "sorry"

\* C15: an outbound session (turn limit 3) that reaches the end of its loop
\* with the call up at every checkpoint, every recording returned and no
\* service failure has exactly 3 caller/system pairs in its history, in turn
\* order, and left the loop by the turn limit.
C15_FullCallThreeTurns ==
    (/\ variant = "outbound"
     /\ pc = "stop_whole"
     /\ ~gateFailed
     /\ recRet # "None"
     /\ ~svcFailed)
      => /\ iteration = 3
         /\ endReason = "MaxTurnsReached"
         /\ history = <<[role |-> "user", content |-> "hi"],
                        [role |-> "assistant", content |-> "reply"],
                        [role |-> "user", content |-> "hi"],
                        [role |-> "assistant", content |-> "reply"],
                        [role |-> "user", content |-> "hi"],
                        [role |-> "assistant", content |-> "reply"]>>

\* The loop of an answered call that is still up has ended after three turns
\* in which nothing failed, the last reply having been played to its end.
C15_Witness ==
    /\ variant = "outbound"
    /\ pc = "stop_whole"
    /\ callState = "up"
    /\ ~gateFailed
    /\ ~svcFailed
    /\ recRet = "path"
    /\ ~playing
    /\ Len(history) = 6

\* The controller leaves the greeting step.
GreetingReturns ==
    pc = "play_ret" /\ playCtx = "greeting" /\ pc' # pc

\* C16 as stated: after the greeting the outbound program enters the
\* conversation loop whether the playback succeeded or failed, and the inbound
\* program aborts the call, without entering the loop, when it failed.
C16_GreetingPolicyAsStated ==
    [][GreetingReturns
         => IF variant = "outbound"
            THEN pc' = "loop_head"
            ELSE playRet = "False" => pc' = "ended"]_vars

\* C16 amended: after the greeting the outbound program enters the
\* conversation loop only when the playback succeeded and otherwise ends the
\* session with no turn; the inbound program calls conversation_loop
\* whatever the playback returned.
C16_GreetingPolicy ==
    [][GreetingReturns
         => IF variant = "outbound"
            THEN /\ playRet = "True" => pc' = "loop_head"
                 /\ playRet # "True"
                      => /\ pc' = "ended"
                         /\ endReason' = "GreetingFailed"
                         /\ iteration' = 0
                         /\ history' = <<>>
            ELSE pc' = "conv_start"]_vars

\* An outbound session has ended on a greeting whose playback wait ran into
\* its deadline while the call was up: no turn was run.
C16_Witness ==
    /\ variant = "outbound"
    /\ SessionEnded
    /\ endReason = "GreetingFailed"
    /\ playRet = "False"
    /\ callState = "up"
    /\ iteration = 0

\* The controller is in the part of a turn that follows an empty transcript.
InEmptyTranscriptTurn ==
    /\ transcription = ""
    /\ \/ pc \in {"retry_prompt", "reply", "process", "synthesize"}
       \/ (pc \in (PlayPcs \cup {"play_ret"}) /\ playCtx \in TurnPlayCtx)

\* C17: an empty or failed transcript does not end the call: the rest of that
\* turn leads back to the loop test (where the turn limit and the call state
\* decide on the next recording), never to the closing steps or to the end of
\* the session.
C17_EmptyTranscriptGoesOn ==
    [][InEmptyTranscriptTurn => pc' \notin ClosingPcs]_vars

\* C18: no two turns of a session use the same file path for a per-turn
\* caller recording or a synthesized reply.
C18_ArtifactPathsFresh ==
    \A a, b \in artifacts : a.path = b.path => a.turn = b.turn

\* C20: a record wait that receives CHANNEL_HANGUP, before or after
\* RECORD_START, ends there and record_user_response returns None.
C20_HangupAbortsRecord ==
    [][(/\ pc = "rec_wait"
        /\ evq # <<>>
        /\ Head(evq) = "CHANNEL_HANGUP"
        /\ evq' = Tail(evq))
         => (pc' = "rec_ret" /\ recRet' = "None")]_vars

\* A wait receives an event of another channel.
ReceivesOtherChannelEvent ==
    /\ pc \in {"answer_wait", "play_wait", "rec_wait"}
    /\ evq # <<>>
    /\ Head(evq) \in OtherChannelEvents
    /\ evq' = Tail(evq)

\* C19: the inbound dispatcher has started exactly one handler per accepted
\* connection, and a session is unaffected by the other session: an event of
\* the other session's channel changes neither where the controller is nor
\* what its play and record steps return.
C19_SessionsIsolated ==
    [][/\ controllers' = accepted'
       /\ (variant = "inbound" /\ ReceivesOtherChannelEvent)
            => UNCHANGED <<pc, playRet, recRet, recVia>>]_vars

\* C22: the conversation history is append-only and chronological: a step
\* changes it only by adding one entry at its end, the caller's transcript
\* before the reply service is called (step 3) or the reply once the call has
\* returned (step 5), so caller and system entries alternate in turn order.
C22_HistoryAppendOnly ==
    [][/\ Len(history') >= Len(history)
       /\ SubSeq(history', 1, Len(history)) = history
       /\ history' # history
          => /\ Len(history') = Len(history) + 1
             /\ \/ /\ pc = "reply" /\ pc' = "process"
                   /\ history'[Len(history')] =
                        [role |-> "user", content |-> transcription]
                \/ /\ pc = "process" /\ pc' = "synthesize"
                   /\ history'[Len(history')].role = "assistant"
                   /\ history[Len(history)].role = "user"
       /\ \A i \in 1..Len(history') :
            history'[i].role = IF i % 2 = 1 THEN "user" ELSE "assistant"]_vars

\* The caller entry of turn 2 has been appended behind the exchange of turn 1
\* and the reply to it has not been obtained yet.
C22_Witness ==
    /\ pc = "process"
    /\ iteration = 2
    /\ Len(history) = 3
    /\ history[1].role = "user"
    /\ history[2].role = "assistant"
    /\ history[3] = [role |-> "user", content |-> transcription]

\* C24: a turn whose transcript is empty adds nothing to the history and
\* makes no call of the reply service: from the transcription the outbound
\* loop goes straight to its next iteration and the inbound loop to its retry
\* prompt.
C24_EmptyTranscriptSkipsTurn ==
    [][/\ (pc = "transcribe" /\ transcription' = "")
          => pc' = IF variant = "outbound" THEN "loop_head" ELSE "retry_prompt"
       /\ InEmptyTranscriptTurn
          => (history' = history /\ pc' # "process")]_vars

\* C23: the wait budget of record_user_response is longer than the maximum
\* duration given to the capture, so the deadline of the wait never passes
\* while the capture is running: the manual stop never cuts a capture short.
C23_WaitCoversCapture ==
    ~(pc = "rec_stop" /\ capturing)

\* The record wait receives the event at the head of the queue, named n.
RecordWaitReceives(n) ==
    /\ pc = "rec_wait"
    /\ evq # <<>>
    /\ EventName(Head(evq)) = n
    /\ evq' = Tail(evq)

\* C26: record_user_response returns its path on a RECORD_STOP only if it
\* has seen a RECORD_START earlier in the same wait; a RECORD_STOP it receives
\* before any RECORD_START is ignored and the wait goes on.
C26_StopNeedsStart ==
    [][/\ RecordWaitReceives("RECORD_STOP")
          => IF record_started
             THEN pc' = "rec_ret" /\ recRet' = "path"
             ELSE pc' = "rec_wait" /\ ~record_started' /\ recRet' = recRet
       /\ (pc = "rec_start" /\ pc' = "rec_wait") => ~record_started'
       /\ (record_started' /\ ~record_started)
          => RecordWaitReceives("RECORD_START")
       /\ (pc = "rec_wait" /\ pc' = "rec_ret" /\ recRet' = "path")
          => record_started]_vars

\* The wait has returned the path on a RECORD_STOP that followed the
\* RECORD_START it had seen.
C26_Witness ==
    /\ pc = "rec_ret"
    /\ recVia = "RECORD_STOP"
    /\ recRet = "path"
    /\ record_started
    /\ ~capturing

\* C30: every per-turn capture is started after a settle pause that follows
\* the last playback step and the capture before it, in both programs.
C30_SettleBeforeCapture ==
    \A a \in artifacts : a.kind = "recording" => a.delayed

\* C27: when the record wait runs out with no accepted RECORD_STOP, the
\* explicit stop command is issued exactly once, before the file is looked
\* at, and the result is the path only if the file then exists and is larger
\* than the floor; a record that returns on RECORD_STOP or CHANNEL_HANGUP
\* issues no explicit stop.
C27_ManualStopOnceThenValidate ==
    [][/\ turnStops' > turnStops => pc = "rec_stop"
       /\ (pc = "rec_wait" /\ pc' = "rec_stop")
          => (polls >= MaxPolls /\ turnStops' = 0 /\ recRet' = recRet)
       /\ (pc = "rec_stop" /\ pc' # pc)
          => /\ pc' = "rec_ret"
             /\ turnStops' = 1
             /\ recVia' = "MANUAL_STOP"
             /\ ~capturing'
             /\ recRet' = IF file' # NoFile /\ file' > MinFileSize
                          THEN "path" ELSE "None"
       /\ (pc = "rec_wait" /\ pc' = "rec_ret")
          => (turnStops' = 0 /\ recVia' \in {"RECORD_STOP", "HANGUP"})]_vars

\* The wait ran out, the capture was stopped by the explicit command, and the
\* file it left is exactly as large as the floor: no recording is returned.
C27_Witness ==
    /\ pc = "rec_ret"
    /\ recVia = "MANUAL_STOP"
    /\ turnStops = 1
    /\ file = MinFileSize
    /\ recRet = "None"

\* C25: the closing steps come in one order: the goodbye playback (only on a
\* call that is still active) before the stop of the whole-call recording,
\* the stop before the hangup; once the whole-call recording was stopped or
\* the hangup was issued, no playback and no recording command follows.
C25_ClosingOrder ==
    [][/\ (wholeStop > 0 \/ hangupCmds > 0)
          => /\ pc' \in {"final_check", "final_kill", "conn_hangup", "ended"}
             /\ UNCHANGED <<wholeStart, turnStops, artifacts, playCtx>>
       /\ hangupCmds > 0 => (wholeStop' = wholeStop /\ pc' = "ended")
       /\ wholeStop' # wholeStop
          => (pc = "stop_whole" /\ wholeStop = 0 /\ hangupCmds = 0)
       /\ (pc = "goodbye" /\ pc' # pc)
          => (/\ wholeStop' = 0
              /\ hangupCmds' = 0
              /\ pc' = "play_issue" => CheckCallActive(callState))]_vars

\* A session that ran its turns has closed with the stop of the whole-call
\* recording followed by the hangup of a call that was still up.
C25_Witness ==
    /\ variant = "outbound"
    /\ SessionEnded
    /\ iteration > 0
    /\ wholeStop = 1
    /\ hangupCmds = 1
    /\ endReason \in {"MaxTurnsReached", "NoRecording"}

WaitPcs == {"answer_wait", "play_wait", "rec_wait"}

\* C28: every event is received by the wait that is active when it arrives,
\* and what that wait does not take is dropped: a wait that returns leaves no
\* event in the queue for a later wait.
C28_NoEventBuffered ==
    [][(pc \in WaitPcs /\ pc' \notin WaitPcs) => evq' = <<>>]_vars

\* The wait at position w receives the event at the head of the queue.
WaitReceives(w) == pc = w /\ evq # <<>> /\ evq' = Tail(evq)

\* C29: the answer wait and the playback wait return on the first event they
\* receive whose name they look for, with the result that belongs to it, and
\* go on polling after any other event; a poll that brings no event leaves
\* the wait polling; the timeout result is returned only at the deadline.
C29_WaitReturnsFirstInteresting ==
    [][/\ WaitReceives("answer_wait")
          => pc' = CASE EventName(Head(evq)) = "CHANNEL_ANSWER" -> "start_whole"
                     [] EventName(Head(evq)) = "CHANNEL_HANGUP" -> "kill_unanswered"
                     [] OTHER -> "answer_wait"
       /\ WaitReceives("play_wait")
          => CASE EventName(Head(evq)) = "PLAYBACK_STOP" ->
                    pc' = "play_ret" /\ playRet' = "True"
               [] EventName(Head(evq)) = "CHANNEL_HANGUP" ->
                    pc' = "play_ret" /\ playRet' = "False"
               [] OTHER ->
                    pc' = "play_wait" /\ playRet' = playRet
       /\ (pc \in {"answer_wait", "play_wait"} /\ evq = <<>> /\ polls' = polls + 1)
          => pc' = pc
       /\ (pc \in {"answer_wait", "play_wait"} /\ pc' # pc /\ evq' = evq)
          => /\ polls >= MaxPolls
             /\ pc = "answer_wait" => pc' = "kill_unanswered"
             /\ pc = "play_wait" => (pc' = "play_ret" /\ playRet' = "False")]_vars

\* The playback wait has returned true on PLAYBACK_STOP after it had received
\* and skipped MaxOthers events it does not look for.
C29_Witness ==
    /\ variant = "outbound"
    /\ pc = "play_ret"
    /\ playRet = "True"
    /\ others = MaxOthers
    /\ evq = <<>>

\* C21: every session terminates: once the controller of a session runs, the
\* session reaches ENDED, whatever events are or are not delivered.
C21_SessionTerminates ==
    (pc # "accept") ~> SessionEnded

\* A session has ended because its loop ran through all its turns.
C21_Witness ==
    /\ SessionEnded
    /\ endReason = "MaxTurnsReached"
    /\ iteration = MaxIterations(variant)

\* The session ended because call initiation failed: the originate command
\* was not acknowledged (outbound), the connection was not established or the
\* call information was unavailable (inbound).
InitiationFailedEnd ==
    \/ endReason = "InitiationFailed"
    \/ (variant = "inbound" /\ endReason = "ConnectFailed")

\* C31: when call initiation fails the session ends at once, and in a session
\* that ended so there has been no answer wait, no whole-call recording
\* command, no playback, no turn and no hangup command.
C31_InitiationFailureEndsAtOnce ==
    [][/\ (pc = "initiate" /\ pc' # pc /\ ~initiated')
          => (pc' = "ended" /\ endReason' = "InitiationFailed")
       /\ (variant = "inbound" /\ pc = "start" /\ pc' \notin {"start", "initiate"})
          => (pc' = "ended" /\ endReason' = "ConnectFailed")
       /\ InitiationFailedEnd'
          => /\ pc' = "ended"
             /\ ~initiated'
             /\ polls' = 0
             /\ wholeStart' = 0
             /\ wholeStop' = 0
             /\ ~wholeRan'
             /\ playCtx' = "none"
             /\ ~playing'
             /\ iteration' = 0
             /\ artifacts' = {}
             /\ history' = <<>>
             /\ hangupCmds' = 0]_vars

\* An inbound session has ended on missing call information while its call
\* was still ringing: nothing was started and no hangup was issued.
C31_Witness ==
    /\ variant = "inbound"
    /\ SessionEnded
    /\ endReason = "InitiationFailed"
    /\ callState = "ringing"
    /\ hangupCmds = 0
    /\ wholeStart = 0

\* C32: when the synthesis of the reply fails, the turn ends there: no
\* playback command is issued, the history, whose last entry is the reply
\* just appended, is left as it is, and the controller is back at the loop
\* test, which enters the next turn while the turn limit is not reached.
C32_SynthesisFailureSkipsPlayback ==
    [][/\ (pc = "synthesize" /\ pc' # pc)
          => pc' \in {"play_issue", "loop_head"}
       /\ (pc = "synthesize" /\ pc' = "loop_head")
          => /\ history' = history
             /\ history[Len(history)].role = "assistant"
             /\ UNCHANGED <<playing, playCtx, artifacts, iteration, escaped,
                            endReason, cmdVars>>
       /\ (pc = "loop_head" /\ pc' # pc /\ iteration < MaxIterations(variant))
          => (pc' = "gate_pre" /\ iteration' = iteration + 1
              /\ history' = history)]_vars

\* The synthesis of the first reply failed (no reply has been played: the
\* last playback is the greeting) and the loop has entered turn 2 with the
\* exchange of turn 1 in the history.
C32_Witness ==
    /\ variant = "outbound"
    /\ pc = "gate_pre"
    /\ iteration = 2
    /\ playCtx = "greeting"
    /\ callState = "up"
    /\ Len(history) = 2
    /\ history[2].role = "assistant"

\* C33: a playback of the reply that did not return true is not fatal: the
\* controller goes back to the loop test with nothing ended and no closing
\* command issued, the loop test enters the next turn while the turn limit is
\* not reached, and in that turn only a CallGate checkpoint or the result of
\* the recorder leads to the closing steps.
C33_ReplyPlaybackFailureNotFatal ==
    [][/\ (pc = "play_ret" /\ playCtx = "reply" /\ pc' # pc)
          => /\ pc' = "loop_head"
             /\ UNCHANGED <<endReason, escaped, gateFailed, cmdVars, callState,
                            history, iteration>>
       /\ (pc = "loop_head" /\ pc' # pc /\ iteration < MaxIterations(variant))
          => pc' = "gate_pre"
       /\ (playCtx = "reply" /\ iteration < MaxIterations(variant)
           /\ pc \notin ClosingPcs /\ pc' \in ClosingPcs)
          => pc \in {"gate_pre", "rec_ret", "gate_post"}]_vars

\* The playback wait of the first reply ran into its deadline on a call that
\* is up (the audio is still being played), and the loop has entered turn 2.
C33_Witness ==
    /\ variant = "outbound"
    /\ pc = "gate_pre"
    /\ iteration = 2
    /\ playCtx = "reply"
    /\ playing
    /\ callState = "up"
    /\ foreign = 0

\* The accept loop takes one more connection and starts its handler.
AcceptsConnection ==
    Accept /\ accepted' = accepted + 1 /\ controllers' = controllers + 1

\* C34: the inbound dispatcher never stops accepting: whatever happened to
\* earlier accepts and whatever state the session of an accepted connection
\* is in (running, ended, ended by an error in its handler), the accept loop
\* is running, it can accept the next connection and start a handler for it,
\* and every accepted connection has got a handler of its own.
C34_DispatcherKeepsAccepting ==
    variant = "inbound"
      => /\ listening
         /\ controllers = accepted
         /\ accepted < MaxConns => ENABLED AcceptsConnection

\* The handler of the first connection has ended on an exception, and the
\* dispatcher, which has accepted no other connection yet, is still running.
C34_Witness ==
    /\ variant = "inbound"
    /\ SessionEnded
    /\ escaped # "none"
    /\ accepted = 1
    /\ controllers = 1
    /\ listening

\* C35: the messages handed to the reply service in a turn are the history
\* as it was before the turn (the history without the two entries of this
\* turn) followed by the caller transcript of the turn, once.
C35_RequestHasTranscriptOnce ==
    pc = "synthesize"
      => messages = SubSeq(history, 1, Len(history) - 2)
                      \o <<[role |-> "user", content |-> transcription]>>

\* C36: play_audio_file returns true only on the PLAYBACK_STOP of the audio
\* it has just issued: when it returns true in a session that received no
\* event of another channel, that audio has ended (a PLAYBACK_STOP left by an
\* earlier playback, whose wait ran into its deadline, is not taken for it).
C36_TrueOnlyForOwnPlaybackStop ==
    (pc = "play_ret" /\ playRet = "True" /\ foreign = 0) => ~playing

\* C37: in the outbound program an event of another channel that a wait
\* receives is skipped: it changes neither where the controller is nor what
\* the answer wait, the play or the record returns.
C37_OnlyOwnCallEvents ==
    [][(variant = "outbound" /\ ReceivesOtherChannelEvent)
         => UNCHANGED <<pc, playRet, recRet, recVia, record_started>>]_vars

\* C38: when record_user_response returns the path after its wait ran out
\* (explicit stop, then validation), the file it validated was written by
\* the capture this call started, not left at the path by an earlier turn.
C38_ValidatedFileIsCurrent ==
    (pc = "rec_ret" /\ recVia = "MANUAL_STOP" /\ recRet = "path") => captureRan

\* C39: in every reachable state the history has at most two entries per
\* loop iteration entered, it does not start with a system entry, every
\* system entry directly follows a caller entry, and the system entry a turn
\* has just appended follows the caller entry of that same turn.
C39_HistoryShape ==
    /\ Len(history) <= 2 * iteration
    /\ history # <<>> => history[1].role = "user"
    /\ \A i \in 1..Len(history) :
         history[i].role = "assistant"
           => (i > 1 /\ history[i - 1].role = "user")
    /\ pc = "synthesize"
         => /\ Len(history) = 2 * iteration
            /\ history[Len(history)].role = "assistant"
            /\ history[Len(history) - 1] =
                 [role |-> "user", content |-> transcription]

\* The last turn of an outbound call has appended its reply: the history
\* holds two entries for each of the three iterations.
C39_Witness ==
    /\ variant = "outbound"
    /\ pc = "synthesize"
    /\ iteration = MaxIterations(variant)
    /\ Len(history) = 2 * MaxIterations(variant)

====
